---- MODULE Spec2Model ----
(***************************************************************************)
(* CHIP-8 interpreter of src/main.c: the Chip8 machine state, init_cpu,    *)
(* load_rom, emulate_cycle and the main loop that drives them.             *)
(***************************************************************************)
EXTENDS Integers, Sequences, FiniteSets, TLC

(***************************************************************************)
(* Program constants.                                                      *)
(***************************************************************************)
MemSize == 4096
NumRegs == 16
GfxWidth == 64
GfxHeight == 32
GfxSize == GfxWidth * GfxHeight
StackSize == 16
NumKeys == 16
RomBase == 512
MaxRomSize == MemSize - RomBase
CyclesPerFrame == 10
Word == 65536
Byte == 256

(***************************************************************************)
(* Bounds of the model.                                                    *)
(***************************************************************************)
\* deepest call chain among the nested-call ROM images
MaxDepth == 16
\* the host presses and releases the keys 0..MaxKey
MaxKey == 0
\* the bytes 0..MaxUninit stand for the contents of uninitialised storage
MaxUninit == 2
\* rand() % 256 yields one of MaxRand + 1 sample bytes
MaxRand == 2

(***************************************************************************)
(* C operators on unsigned integers.                                       *)
(***************************************************************************)
RECURSIVE BitAnd(_, _)
BitAnd(a, b) ==
    IF a = 0 \/ b = 0 THEN 0
    ELSE ((a % 2) * (b % 2)) + 2 * BitAnd(a \div 2, b \div 2)

RECURSIVE BitOr(_, _)
BitOr(a, b) ==
    IF a = 0 THEN b
    ELSE IF b = 0 THEN a
    ELSE (IF (a % 2) + (b % 2) > 0 THEN 1 ELSE 0) + 2 * BitOr(a \div 2, b \div 2)

RECURSIVE BitXor(_, _)
BitXor(a, b) ==
    IF a = 0 THEN b
    ELSE IF b = 0 THEN a
    ELSE ((a + b) % 2) + 2 * BitXor(a \div 2, b \div 2)

\* 0x80 >> n
ShiftRight(a, n) == a \div (2 ^ n)

(***************************************************************************)
(* Nondeterministic inputs of the program.                                 *)
(***************************************************************************)
\* contents of the automatic variable `Chip8 cpu` before init_cpu runs
UninitBytes == 0 .. MaxUninit

\* results of rand() % 256
RandBytes == {(255 * k) \div MaxRand : k \in 0 .. MaxRand}

\* what a read outside a fixed buffer returns: a pair of bytes, the first for
\* even offsets and the second for odd ones; NoOob when the step reads inside
OobBytes == {0, 1, 208, 255}
NoOob == [b1 |-> 0, b2 |-> 0]
OobPairs == [b1 : OobBytes, b2 : OobBytes]

(***************************************************************************)
(* Opcode fields.                                                          *)
(***************************************************************************)
OpClass(opcode) == opcode \div 4096
OpX(opcode) == (opcode \div 256) % 16
OpY(opcode) == (opcode \div 16) % 16
OpN(opcode) == opcode % 16
OpNN(opcode) == opcode % 256
OpNNN(opcode) == opcode % 4096

(***************************************************************************)
(* The machine state, struct Chip8.                                        *)
(***************************************************************************)
\* the storage of `Chip8 cpu` as main finds it: every field holds whatever
\* the stack held, here the byte d (and s for the sound timer) repeated
Uninit(d, s) ==
    [memory |-> [a \in 0 .. MemSize - 1 |-> d],
     V |-> [r \in 0 .. NumRegs - 1 |-> d],
     I |-> d * 257,
     pc |-> d * 257,
     gfx |-> [p \in 0 .. GfxSize - 1 |-> d],
     delay_timer |-> d,
     sound_timer |-> s,
     stack |-> [l \in 0 .. StackSize - 1 |-> d * 257],
     sp |-> d * 257,
     key |-> [k \in 0 .. NumKeys - 1 |-> d],
     draw_flag |-> (d # 0)]

init_cpu(c) ==
    [c EXCEPT !.pc = 512,
              !.I = 0,
              !.sp = 0,
              !.draw_flag = TRUE,
              !.memory = [a \in 0 .. MemSize - 1 |-> 0],
              !.V = [r \in 0 .. NumRegs - 1 |-> 0],
              !.gfx = [p \in 0 .. GfxSize - 1 |-> 0],
              !.stack = [l \in 0 .. StackSize - 1 |-> 0],
              !.key = [k \in 0 .. NumKeys - 1 |-> 0]]

\* a file is a sequence of bytes, or NoFile when fopen fails
NoFile == <<-1>>

\* fread(&cpu->memory[0x200], 1, size, f)
fread(c, file) ==
    [c EXCEPT !.memory = [a \in 0 .. MemSize - 1 |->
        IF a >= RomBase /\ a < RomBase + Len(file) THEN file[a - RomBase + 1]
        ELSE c.memory[a]]]

\* mutant: `size >= (4096 - 512)` in place of `size > (4096 - 512)`
load_rom_Geq(c, file) ==
    IF file = NoFile THEN [ok |-> FALSE, cpu |-> c]
    ELSE IF Len(file) >= MemSize - 512 THEN [ok |-> FALSE, cpu |-> c]
    ELSE [ok |-> TRUE, cpu |-> fread(c, file)]

load_rom(c, file) ==
    IF file = NoFile THEN [ok |-> FALSE, cpu |-> c]
    ELSE IF Len(file) > MemSize - 512 THEN [ok |-> FALSE, cpu |-> c]
    ELSE [ok |-> TRUE, cpu |-> fread(c, file)]

(***************************************************************************)
(* Accesses to the fixed buffers.  An index past the end of the array is   *)
(* undefined behaviour: a read yields a byte of whatever lies there (u), a *)
(* write lands on what follows the array in the struct.                    *)
(***************************************************************************)
MemRead(c, a, u) ==
    IF a < MemSize THEN c.memory[a]
    ELSE IF a % 2 = 0 THEN u.b1 ELSE u.b2

KeyRead(c, k, u) ==
    IF k < NumKeys THEN c.key[k] ELSE u.b1

StackRead(c, l, u) ==
    IF l < StackSize THEN c.stack[l] ELSE u.b1 * 256 + u.b2

\* stack[16] is where sp lies when the struct has no padding after stack; the
\* store either hits sp (u.b1 # 0) or is kept apart from it by the compiler.
\* gfx lies before stack in the struct and is out of reach of stack[l].
StackWrite(c, l, v, u) ==
    IF l < StackSize THEN [c EXCEPT !.stack[l] = v]
    ELSE IF l = StackSize /\ u.b1 # 0 THEN [c EXCEPT !.sp = v]
    ELSE c

AddPc(c, n) == [c EXCEPT !.pc = (c.pc + n) % Word]

\* byte1 << 8 | byte2
Opcode(c, u) == MemRead(c, c.pc, u) * 256 + MemRead(c, c.pc + 1, u)

(***************************************************************************)
(* emulate_cycle, one case per operator.                                   *)
(***************************************************************************)
Op00E0(c) ==
    AddPc([c EXCEPT !.gfx = [p \in 0 .. GfxSize - 1 |-> 0], !.draw_flag = TRUE], 2)

\* mutant: the return forgets `cpu->pc += 2`
Op00EE_NoAdvance(c, u) ==
    LET sp1 == (c.sp + Word - 1) % Word
    IN  [c EXCEPT !.sp = sp1, !.pc = StackRead(c, sp1, u)]

Op00EE(c, u) ==
    LET sp1 == (c.sp + Word - 1) % Word
    IN  AddPc([c EXCEPT !.sp = sp1, !.pc = StackRead(c, sp1, u)], 2)

\* mutant: the final else of case 0x0000 forgets `cpu->pc += 2`
Op0NNN_NoAdvance(c, opcode, u) ==
    IF opcode % 256 = 224 THEN Op00E0(c)
    ELSE IF opcode % 256 = 238 THEN Op00EE(c, u)
    ELSE c

Op0NNN(c, opcode, u) ==
    IF opcode % 256 = 224 THEN Op00E0(c)
    ELSE IF opcode % 256 = 238 THEN Op00EE(c, u)
    ELSE AddPc(c, 2)

Op1NNN(c, opcode) == [c EXCEPT !.pc = OpNNN(opcode)]

Op2NNN(c, opcode, u) ==
    LET c1 == StackWrite(c, c.sp, c.pc, u)
        c2 == [c1 EXCEPT !.sp = (c1.sp + 1) % Word]
    IN  [c2 EXCEPT !.pc = OpNNN(opcode)]

Op3XNN(c, opcode) ==
    IF c.V[OpX(opcode)] = OpNN(opcode) THEN AddPc(c, 4) ELSE AddPc(c, 2)

Op4XNN(c, opcode) ==
    IF c.V[OpX(opcode)] # OpNN(opcode) THEN AddPc(c, 4) ELSE AddPc(c, 2)

Op6XNN(c, opcode) == AddPc([c EXCEPT !.V[OpX(opcode)] = OpNN(opcode)], 2)

Op7XNN(c, opcode) ==
    AddPc([c EXCEPT !.V[OpX(opcode)] = (@ + OpNN(opcode)) % Byte], 2)

\* mutant: `V[x] |= V[y]`, the arm of 8XY1, in place of `V[x] ^= V[y]`
Op8XY3_Or(c, x, y) == [c EXCEPT !.V[x] = BitOr(c.V[x], c.V[y])]

Op8XY3(c, x, y) == [c EXCEPT !.V[x] = BitXor(c.V[x], c.V[y])]

Op8XY4(c, x, y) ==
    LET sum == c.V[x] + c.V[y]
        c1 == [c EXCEPT !.V[15] = IF sum > 255 THEN 1 ELSE 0]
    IN  [c1 EXCEPT !.V[x] = sum % 256]

Op8XY5(c, x, y) ==
    LET c1 == [c EXCEPT !.V[15] = IF c.V[x] >= c.V[y] THEN 1 ELSE 0]
    IN  [c1 EXCEPT !.V[x] = (c1.V[x] - c1.V[y] + Byte) % Byte]

Op8XYN(c, opcode) ==
    LET x == OpX(opcode)
        y == OpY(opcode)
        n == OpN(opcode)
        c1 == CASE n = 0 -> [c EXCEPT !.V[x] = c.V[y]]
                [] n = 1 -> [c EXCEPT !.V[x] = BitOr(c.V[x], c.V[y])]
                [] n = 2 -> [c EXCEPT !.V[x] = BitAnd(c.V[x], c.V[y])]
                [] n = 3 -> Op8XY3(c, x, y)
                [] n = 4 -> Op8XY4(c, x, y)
                [] n = 5 -> Op8XY5(c, x, y)
                [] OTHER -> c
    IN  AddPc(c1, 2)

OpANNN(c, opcode) == AddPc([c EXCEPT !.I = OpNNN(opcode)], 2)

OpCXNN(c, opcode, rnd) ==
    AddPc([c EXCEPT !.V[OpX(opcode)] = BitAnd(rnd % 256, OpNN(opcode))], 2)

\* mutant: the loop variables xline and yline exchanged
GfxIndex_Swapped(x, y, xline, yline) ==
    ((x + yline) % GfxWidth) + ((y + xline) % GfxHeight) * GfxWidth

\* int idx = ((x + xline) % 64) + ((y + yline) % 32) * 64
GfxIndex(x, y, xline, yline) ==
    ((x + xline) % GfxWidth) + ((y + yline) % GfxHeight) * GfxWidth

\* if ((pixel & (0x80 >> xline)) != 0)
SpriteBit(pixel, xline) == BitAnd(pixel, ShiftRight(128, xline)) # 0

\* mutant: `gfx[idx] += 1` in place of `gfx[idx] ^= 1`
TogglePixel_Add(v) == (v + 1) % Byte

\* mutant: `gfx[idx] |= 1` in place of `gfx[idx] ^= 1`
TogglePixel_Set(v) == BitOr(v, 1)

\* gfx[idx] ^= 1
TogglePixel(v) == BitXor(v, 1)

\* mutant: the test for a collision left out
Collides_Never(v) == FALSE

\* if (cpu->gfx[idx] == 1)
Collides(v) == v = 1

\* the inner loop over xline; g holds gfx and the collision flag V[0xF]
RECURSIVE DrawBits(_, _, _, _, _, _)
DrawBits(g, x, y, pixel, yline, xline) ==
    IF xline >= 8 THEN g
    ELSE IF SpriteBit(pixel, xline)
    THEN LET idx == GfxIndex(x, y, xline, yline)
         IN  DrawBits([gfx |-> [g.gfx EXCEPT ![idx] = TogglePixel(@)],
                       VF |-> IF Collides(g.gfx[idx]) THEN 1 ELSE g.VF],
                      x, y, pixel, yline, xline + 1)
    ELSE DrawBits(g, x, y, pixel, yline, xline + 1)

\* the outer loop over yline; a row that toggles nothing hands gfx and the
\* flag on as they were
RECURSIVE DrawLines(_, _, _, _, _, _, _)
DrawLines(c, g, x, y, height, yline, u) ==
    IF yline >= height THEN g
    ELSE LET row == DrawBits(g, x, y, MemRead(c, c.I + yline, u), yline, 0)
         IN  IF row.VF = g.VF /\ row.gfx = g.gfx
             THEN DrawLines(c, g, x, y, height, yline + 1, u)
             ELSE DrawLines(c, row, x, y, height, yline + 1, u)

OpDXYN(c, opcode, u) ==
    LET x == c.V[OpX(opcode)]
        y == c.V[OpY(opcode)]
        height == OpN(opcode)
        g == DrawLines(c, [gfx |-> c.gfx, VF |-> 0], x, y, height, 0, u)
    IN  AddPc([c EXCEPT !.V[15] = g.VF, !.gfx = g.gfx, !.draw_flag = TRUE], 2)

OpEXNN(c, opcode, u) ==
    LET key_index == c.V[OpX(opcode)]
    IN  CASE OpNN(opcode) = 158 ->
               IF KeyRead(c, key_index, u) # 0 THEN AddPc(c, 4) ELSE AddPc(c, 2)
          [] OpNN(opcode) = 161 ->
               IF KeyRead(c, key_index, u) = 0 THEN AddPc(c, 4) ELSE AddPc(c, 2)
          [] OTHER -> AddPc(c, 2)

OpFX07(c, x) == AddPc([c EXCEPT !.V[x] = c.delay_timer], 2)

OpFX15(c, x) == AddPc([c EXCEPT !.delay_timer = c.V[x]], 2)

OpFX18(c, x) == AddPc([c EXCEPT !.sound_timer = c.V[x]], 2)

OpFXNN(c, opcode) ==
    LET x == OpX(opcode)
    IN  CASE OpNN(opcode) = 7 -> OpFX07(c, x)
          [] OpNN(opcode) = 21 -> OpFX15(c, x)
          [] OpNN(opcode) = 24 -> OpFX18(c, x)
          [] OTHER -> AddPc(c, 2)

\* the switch on opcode & 0xF000
Execute(c, opcode, rnd, u) ==
    CASE OpClass(opcode) = 0 -> Op0NNN(c, opcode, u)
      [] OpClass(opcode) = 1 -> Op1NNN(c, opcode)
      [] OpClass(opcode) = 2 -> Op2NNN(c, opcode, u)
      [] OpClass(opcode) = 3 -> Op3XNN(c, opcode)
      [] OpClass(opcode) = 4 -> Op4XNN(c, opcode)
      [] OpClass(opcode) = 12 -> OpCXNN(c, opcode, rnd)
      [] OpClass(opcode) = 14 -> OpEXNN(c, opcode, u)
      [] OpClass(opcode) = 15 -> OpFXNN(c, opcode)
      [] OpClass(opcode) = 6 -> Op6XNN(c, opcode)
      [] OpClass(opcode) = 7 -> Op7XNN(c, opcode)
      [] OpClass(opcode) = 8 -> Op8XYN(c, opcode)
      [] OpClass(opcode) = 10 -> OpANNN(c, opcode)
      [] OpClass(opcode) = 13 -> OpDXYN(c, opcode, u)
      [] OTHER -> AddPc(c, 2)

\* if (cpu->delay_timer > 0) cpu->delay_timer--; likewise sound_timer
\* mutant: the timers decremented without the test `> 0`
UpdateTimers_Wrap(c) ==
    [c EXCEPT !.delay_timer = (@ + Byte - 1) % Byte,
              !.sound_timer = (@ + Byte - 1) % Byte]

UpdateTimers(c) ==
    [c EXCEPT !.delay_timer = IF @ > 0 THEN @ - 1 ELSE @,
              !.sound_timer = IF @ > 0 THEN @ - 1 ELSE @]

emulate_cycle(c, rnd, u) == UpdateTimers(Execute(c, Opcode(c, u), rnd, u))

(***************************************************************************)
(* The indices one emulate_cycle uses on each fixed buffer.                *)
(***************************************************************************)
FetchReads(c) == {c.pc, c.pc + 1}

SpriteReads(c, opcode) ==
    IF OpClass(opcode) = 13 THEN {c.I + yline : yline \in 0 .. OpN(opcode) - 1}
    ELSE {}

KeyReads(c, opcode) ==
    IF OpClass(opcode) = 14 /\ OpNN(opcode) \in {158, 161} THEN {c.V[OpX(opcode)]}
    ELSE {}

StackUses(c, opcode) ==
    IF OpClass(opcode) = 0 /\ opcode % 256 = 238 THEN {(c.sp + Word - 1) % Word}
    ELSE IF OpClass(opcode) = 2 THEN {c.sp}
    ELSE {}

\* every idx the two loops of DXYN can compute, whatever the sprite bits are
GfxWrites(c, opcode) ==
    IF OpClass(opcode) = 13
    THEN {GfxIndex(c.V[OpX(opcode)], c.V[OpY(opcode)], xline, yline) :
            xline \in 0 .. 7, yline \in 0 .. OpN(opcode) - 1}
    ELSE {}

\* the step indexes some fixed buffer past its end
OutOfBounds(c, opcode) ==
    \/ \E a \in FetchReads(c) : a >= MemSize
    \/ \E a \in SpriteReads(c, opcode) : a >= MemSize
    \/ \E k \in KeyReads(c, opcode) : k >= NumKeys
    \/ \E l \in StackUses(c, opcode) : l >= StackSize

\* the values the step's out-of-bounds reads may see
OobChoices(c) ==
    IF \E u \in OobPairs : OutOfBounds(c, Opcode(c, u)) THEN OobPairs ELSE {NoOob}

\* the values rand() may return to the step
RandChoices(c, u) ==
    IF OpClass(Opcode(c, u)) = 12 THEN RandBytes ELSE {0}

(***************************************************************************)
(* ROM files given to the program.                                         *)
(***************************************************************************)
\* the opcode with hexadecimal digits a b c d
H(a, b, c, d) == ((a * 16 + b) * 16 + c) * 16 + d
Jump(addr) == 4096 + addr
Call(addr) == 8192 + addr
Ret == H(0, 0, 14, 14)
Cls == H(0, 0, 14, 0)

\* big-endian bytes of a sequence of opcodes
Prog(ops) ==
    [j \in 1 .. 2 * Len(ops) |->
        IF j % 2 = 1 THEN ops[(j + 1) \div 2] \div 256 ELSE ops[j \div 2] % 256]

\* V0 = 3; delay = V0; sound = V0; V0 = delay; V1 = 0; delay = V1; halt
RomTimers ==
    Prog(<<H(6,0,0,3), H(15,0,1,5), H(15,0,1,8), H(15,0,0,7),
           H(6,1,0,0), H(15,1,1,5), H(15,1,1,8), Jump(526)>>)

\* d nested calls, then d returns: the call at 0x200+4k enters the routine
\* at 0x200+4(k+1); each routine returns right after its own call; the main
\* program halts at 0x202
RomNest(d) ==
    Prog([j \in 1 .. 2 * d + 1 |->
            IF j = 2 * d + 1 THEN Ret
            ELSE IF j % 2 = 1 THEN Call(512 + 2 * (j + 1))
            ELSE IF j = 2 THEN Jump(514)
            ELSE Ret])

\* a return with nothing on the stack
RomUnderflow == Prog(<<Ret>>)

\* a routine that calls itself for ever
RomRecurse == Prog(<<Call(512)>>)

\* jump to the last instruction slot of memory, which holds 0x0000
RomRunOff == Prog(<<Jump(4094)>>)

\* jump to the last byte of memory
RomOddEnd == Prog(<<Jump(4095)>>)

\* a full-size ROM: jump to its last instruction, 3000, which skips
RomSkipEnd ==
    [j \in 1 .. MaxRomSize |->
        CASE j = 1 -> Jump(4094) \div 256
          [] j = 2 -> Jump(4094) % 256
          [] j = MaxRomSize - 1 -> H(3,0,0,0) \div 256
          [] OTHER -> 0]

\* V0 = 0; wait until key 0 is down; wait until key 0 is up; again
RomKeys ==
    Prog(<<H(6,0,0,0), H(14,0,9,14), Jump(514), H(14,0,10,1), Jump(518),
           Jump(512)>>)

\* V0 = 0xFF; skip if key V0 is down
RomKeyOob == Prog(<<H(6,0,15,15), H(14,0,9,14), Jump(516), Jump(518)>>)

\* I = 0x20A; V0 = 0; V1 = 0; draw 1 row at (V0, V1); halt; sprite 0x80
RomDraw ==
    Prog(<<H(10,2,0,10), H(6,0,0,0), H(6,1,0,0), H(13,0,1,1), Jump(520)>>)
      \o <<128>>

\* a 5-row sprite drawn at (63, 31)
RomDrawWrap ==
    Prog(<<H(10,2,0,10), H(6,0,3,15), H(6,1,1,15), H(13,0,1,5), Jump(520)>>)
      \o <<255, 255, 255, 255, 255>>

\* the same 2-row sprite drawn twice at (5, 3), then the screen cleared
RomDrawTwice ==
    Prog(<<H(10,2,0,14), H(6,0,0,5), H(6,1,0,3), H(13,0,1,2), H(13,0,1,2),
           Cls, Jump(524)>>)
      \o <<240, 144>>

\* a 2-row sprite drawn at (5, 3) and again at (7, 3), over part of itself
RomDrawOverlap ==
    Prog(<<H(10,2,0,14), H(6,0,0,5), H(6,1,0,3), H(13,0,1,2), H(6,0,0,7),
           H(13,0,1,2), Jump(524)>>)
      \o <<240, 144>>

\* I = 0xFFF; draw 2 rows
RomDrawOob == Prog(<<H(10,15,15,15), H(13,0,1,2), Jump(516)>>)

\* FX0A, then halt
RomWaitKey == Prog(<<H(15,0,0,10), Jump(514)>>)

\* V0 = rand; V1 = rand; 8 0 1 n; halt
RomAlu(n) ==
    Prog(<<H(12,0,15,15), H(12,1,15,15), H(8,0,1,n), Jump(518)>>)

\* Vx = rand; Vy = rand; 8 x y n twice; halt
RomAluTwice(x, y, n) ==
    Prog(<<H(12,x,15,15), H(12,y,15,15), H(8,x,y,n), H(8,x,y,n), Jump(520)>>)

\* the pairs (x, y) and the operations n of the RomAluTwice images
AluTwiceCases ==
    {<<0, 1, 3>>, <<0, 0, 3>>, <<15, 1, 4>>, <<1, 15, 4>>, <<15, 1, 5>>,
     <<1, 15, 5>>}

\* VF = 5; V1 = 3; the same 2-row sprite drawn twice at (VF, V1)
RomDrawTwiceVF ==
    Prog(<<H(10,2,0,12), H(6,15,0,5), H(6,1,0,3), H(13,15,1,2), H(13,15,1,2),
           Jump(522)>>)
      \o <<240, 144>>

\* the same 2-row sprite drawn three times at (5, 3)
RomDrawThrice ==
    Prog(<<H(10,2,0,14), H(6,0,0,5), H(6,1,0,3), H(13,0,1,2), H(13,0,1,2),
           H(13,0,1,2), Jump(524)>>)
      \o <<240, 144>>

\* a 2-row sprite drawn at (5, 3), then twice at (7, 3), over part of it
RomDrawTwiceOver ==
    Prog(<<H(10,2,0,16), H(6,0,0,5), H(6,1,0,3), H(13,0,1,2), H(6,0,0,7),
           H(13,0,1,2), H(13,0,1,2), Jump(526)>>)
      \o <<240, 144>>

\* a sprite drawn, then 01E0 and 02EE executed
RomLowByte ==
    Prog(<<H(10,2,0,12), H(13,0,1,1), Call(520), Jump(518), H(0,1,14,0),
           H(0,2,14,14)>>)
      \o <<128>>

\* opcodes emulate_cycle has no case for, then halt
RomUnknown ==
    Prog(<<H(5,0,1,0), H(9,0,1,0), H(11,3,0,0), H(8,0,1,6), H(15,0,3,3),
           H(0,1,2,3), H(14,0,0,0), H(15,0,15,15), Jump(528)>>)

\* 6XNN, 7XNN and the skips 3XNN, 4XNN, taken and not taken
RomSkips ==
    Prog(<<H(6,0,0,5), H(3,0,0,5), Jump(516), H(4,0,0,5), H(7,0,0,1),
           H(7,0,15,15), H(4,0,0,6), Jump(526), H(3,0,0,6), Jump(530)>>)

\* one byte more than fits
RomTooBig == [j \in 1 .. MaxRomSize + 1 |-> 0]

RomImages ==
    {RomTimers, RomUnderflow, RomRecurse, RomRunOff, RomOddEnd, RomSkipEnd,
     RomKeys, RomKeyOob, RomDraw, RomDrawWrap, RomDrawTwice, RomDrawOverlap,
     RomDrawOob,
     RomWaitKey, RomUnknown, RomSkips, RomDrawTwiceVF, RomDrawThrice,
     RomDrawTwiceOver, RomLowByte}
      \cup {RomNest(d) : d \in 1 .. MaxDepth}
      \cup {RomAlu(n) : n \in 0 .. 6}
      \cup {RomAluTwice(t[1], t[2], t[3]) : t \in AluTwiceCases}

Files == {NoFile, RomTooBig} \cup RomImages

(***************************************************************************)
(* State.                                                                  *)
(***************************************************************************)
VARIABLES
    cpu,        \* main's `Chip8 cpu`
    at,         \* where main is: "init_cpu", "load_rom", "loaded", "cycles",
                \* "events", "render", "exit" (return 0), "failed" (return 1)
    i,          \* the counter of main's inner for loop
    running,    \* main's `running`, 0 until its declaration is reached
    prev,       \* history: cpu before the latest emulate_cycle
    opcode,     \* history: the opcode the latest step of main executed, or
                \* NoOpcode when that step was not an emulate_cycle
    ub,         \* history: some emulate_cycle indexed a buffer out of bounds
    shadow,     \* history: the calls not yet returned from, oldest first,
                \* each with the address of its 2NNN and sp before it
    ret,        \* history: the call the latest 00EE returned from, or NoCall
    rom,        \* history: the file load_rom was called with, NoFile before
    prev2,      \* history: V, I and gfx before the step before the latest
    opcode2,    \* history: the opcode of the step before the latest, or
                \* NoOpcode when the two were not consecutive emulate_cycles
    since       \* history: "start" until main first clears draw_flag, then
                \* "drawn" if a step has executed 00E0 or DXYN since the
                \* latest clearing, else "clear"

vars == <<cpu, at, i, running, prev, opcode, ub, shadow, ret, rom, prev2,
          opcode2, since>>

NoOpcode == -1
NoCall == [site |-> -1, sp |-> -1]

IsRet(op) == op # NoOpcode /\ OpClass(op) = 0 /\ op % 256 = 238
IsCall(op) == op # NoOpcode /\ OpClass(op) = 2
IsCls(op) == op = 224
IsDraw(op) == op # NoOpcode /\ OpClass(op) = 13

\* the part of the machine the two-step history keeps
Snapshot(c) == [V |-> c.V, I |-> c.I, gfx |-> c.gfx]

Init ==
    /\ \E d \in UninitBytes, s \in UninitBytes : cpu = Uninit(d, s)
    /\ at = "init_cpu"
    /\ i = 0
    /\ running = 0
    /\ prev = cpu
    /\ opcode = NoOpcode
    /\ ub = FALSE
    /\ shadow = <<>>
    /\ ret = NoCall
    /\ rom = NoFile
    /\ prev2 = Snapshot(cpu)
    /\ opcode2 = NoOpcode
    /\ since = "start"

\* a step of main other than emulate_cycle leaves the history of cycles alone
HostStep ==
    /\ opcode' = NoOpcode
    /\ opcode2' = NoOpcode
    /\ ret' = NoCall
    /\ UNCHANGED <<prev, prev2, ub, shadow>>

InitCpu ==
    /\ at = "init_cpu"
    /\ cpu' = init_cpu(cpu)
    /\ at' = "load_rom"
    /\ UNCHANGED <<i, running, rom, since>>
    /\ HostStep

LoadRom ==
    /\ at = "load_rom"
    /\ \E file \in Files :
         LET r == load_rom(cpu, file)
         IN  /\ cpu' = r.cpu
             /\ at' = IF r.ok THEN "loaded" ELSE "failed"
             /\ rom' = file
    /\ UNCHANGED <<i, running, since>>
    /\ HostStep

\* `int running = 1;` and the first test of `while (running)`
EnterLoop ==
    /\ at = "loaded"
    /\ running' = 1
    /\ at' = "cycles"
    /\ UNCHANGED <<cpu, i, rom, since>>
    /\ HostStep

\* one pass of `for (int i = 0; i < 10; i++) emulate_cycle(&cpu);`
Cycle ==
    /\ at = "cycles"
    /\ ~ub
    /\ \E u \in OobChoices(cpu) : \E rnd \in RandChoices(cpu, u) :
         LET op == Opcode(cpu, u)
         IN  /\ cpu' = emulate_cycle(cpu, rnd, u)
             /\ opcode' = op
             /\ ub' = OutOfBounds(cpu, op)
             /\ shadow' = IF IsCall(op)
                            THEN Append(shadow, [site |-> cpu.pc, sp |-> cpu.sp])
                          ELSE IF IsRet(op) /\ shadow # <<>>
                            THEN SubSeq(shadow, 1, Len(shadow) - 1)
                          ELSE shadow
             /\ ret' = IF IsRet(op) /\ shadow # <<>> THEN shadow[Len(shadow)]
                       ELSE NoCall
             /\ since' = IF since # "start" /\ (IsCls(op) \/ IsDraw(op))
                         THEN "drawn" ELSE since
    /\ prev' = cpu
    /\ prev2' = Snapshot(prev)
    /\ opcode2' = opcode
    /\ i' = IF i + 1 < CyclesPerFrame THEN i + 1 ELSE 0
    /\ at' = IF i + 1 < CyclesPerFrame THEN "cycles" ELSE "events"
    /\ UNCHANGED <<running, rom>>

\* SDL_PollEvent delivers SDL_QUIT
Quit ==
    /\ at = "events"
    /\ running' = 0
    /\ UNCHANGED <<cpu, at, i, rom, since>>
    /\ HostStep

\* SDL_PollEvent delivers SDL_KEYDOWN for the key mapped to k
KeyDown ==
    /\ at = "events"
    /\ \E k \in 0 .. MaxKey : cpu' = [cpu EXCEPT !.key[k] = 1]
    /\ UNCHANGED <<at, i, running, rom, since>>
    /\ HostStep

\* SDL_PollEvent delivers SDL_KEYUP for the key mapped to k
KeyUp ==
    /\ at = "events"
    /\ \E k \in 0 .. MaxKey : cpu' = [cpu EXCEPT !.key[k] = 0]
    /\ UNCHANGED <<at, i, running, rom, since>>
    /\ HostStep

\* SDL_PollEvent returns 0
EventsDone ==
    /\ at = "events"
    /\ at' = "render"
    /\ UNCHANGED <<cpu, i, running, rom, since>>
    /\ HostStep

\* present the frame if draw_flag, sleep, and test `while (running)`
Render ==
    /\ at = "render"
    /\ cpu' = IF cpu.draw_flag THEN [cpu EXCEPT !.draw_flag = FALSE] ELSE cpu
    /\ at' = IF running # 0 THEN "cycles" ELSE "exit"
    /\ since' = IF cpu.draw_flag THEN "clear" ELSE since
    /\ UNCHANGED <<i, running, rom>>
    /\ HostStep

Next ==
    \/ InitCpu
    \/ LoadRom
    \/ EnterLoop
    \/ Cycle
    \/ Quit
    \/ KeyDown
    \/ KeyUp
    \/ EventsDone
    \/ Render

Spec == Init /\ [][Next]_vars

(***************************************************************************)
(* Properties of the step and of the reset state.                          *)
(***************************************************************************)
Stepped == opcode # NoOpcode
IsFX15(op) == op # NoOpcode /\ OpClass(op) = 15 /\ OpNN(op) = 21
IsFX18(op) == op # NoOpcode /\ OpClass(op) = 15 /\ OpNN(op) = 24
IsFX0A(op) == op # NoOpcode /\ OpClass(op) = 15 /\ OpNN(op) = 10
Reset == at \notin {"init_cpu", "load_rom"}

\* C1: a step never decrements the timers: delay_timer is what it was before
\* the step unless the opcode is FX15, sound_timer likewise unless it is FX18,
\* and right after FX15 (FX18) delay_timer (sound_timer) equals V[X].
\* Stated of the steps that stay inside the buffers, where C defines the
\* outcome.
C1_StepLeavesTimers ==
    (Stepped /\ ~ub) =>
      /\ IF IsFX15(opcode) THEN cpu.delay_timer = prev.V[OpX(opcode)]
         ELSE cpu.delay_timer = prev.delay_timer
      /\ IF IsFX18(opcode) THEN cpu.sound_timer = prev.V[OpX(opcode)]
         ELSE cpu.sound_timer = prev.sound_timer

\* C2: call and return are a LIFO round trip: a 00EE that returns from a call
\* made at depth at most 16 resumes at the address of that 2NNN plus 2 with sp
\* as it was before that call; the stack then holds exactly the calls still
\* open; when the last open call returns, sp is 0.
C2_CallReturnRoundTrip ==
    /\ (IsRet(opcode) /\ ret # NoCall) =>
          /\ cpu.pc = ret.site + 2
          /\ cpu.sp = ret.sp
          /\ cpu.sp = Len(shadow)
          /\ (shadow = <<>> => cpu.sp = 0)
    /\ (~ub /\ Reset) =>
          /\ Len(shadow) <= StackSize
          /\ \A l \in 1 .. Len(shadow) :
                shadow[l].sp = l - 1 /\ cpu.stack[l - 1] = shadow[l].site

\* sixteen nested calls have all returned: the return from the outermost one
C2_Witness ==
    /\ IsRet(opcode)
    /\ ret # NoCall
    /\ ret.sp = 0
    /\ shadow = <<>>
    /\ cpu.stack[StackSize - 1] # 0
    /\ cpu.pc = ret.site + 2
    /\ cpu.sp = 0

\* C3: a stack fault halts without mutation: 00EE at sp = 0 and 2NNN at
\* sp = 16 leave pc, sp, stack, V, I, memory and gfx as before the step.
C3_StackFaultKeepsState ==
    (\/ IsRet(opcode) /\ prev.sp = 0
     \/ IsCall(opcode) /\ prev.sp = StackSize) =>
      /\ cpu.pc = prev.pc
      /\ cpu.sp = prev.sp
      /\ cpu.stack = prev.stack
      /\ cpu.V = prev.V
      /\ cpu.I = prev.I
      /\ cpu.memory = prev.memory
      /\ cpu.gfx = prev.gfx

\* C4: no step indexes outside a fixed buffer: the fetch and the sprite rows
\* read memory below 4096, EX9E/EXA1 read key below 16, 2NNN/00EE use stack
\* below 16, DXYN writes gfx below 2048.
C4_IndicesInBounds ==
    Stepped =>
      /\ \A a \in FetchReads(prev) : a < MemSize
      /\ \A a \in SpriteReads(prev, opcode) : a < MemSize
      /\ \A k \in KeyReads(prev, opcode) : k < NumKeys
      /\ \A l \in StackUses(prev, opcode) : l < StackSize
      /\ \A p \in GfxWrites(prev, opcode) : p < GfxSize

\* C5: in every state reachable from reset, 0 <= sp <= 16.
C5_SpInRange == Reset => (0 <= cpu.sp /\ cpu.sp <= StackSize)

\* C6: after every step, 0 <= pc <= 0xFFF.  Stated of the steps that stay
\* inside the buffers, where C defines the outcome.
C6_PcInRange == (Stepped /\ ~ub) => (0 <= cpu.pc /\ cpu.pc <= MemSize - 1)

\* C7: in every state reachable from reset, every cell of gfx is 0 or 1.
C7_GfxCellsBinary ==
    Reset => \A p \in 0 .. GfxSize - 1 : cpu.gfx[p] \in {0, 1}

\* a DXYN has just turned a lit pixel off while another pixel is lit
C7_Witness ==
    /\ IsDraw(opcode)
    /\ \E p \in 0 .. GfxSize - 1 : prev.gfx[p] = 1 /\ cpu.gfx[p] = 0
    /\ \E p \in 0 .. GfxSize - 1 : cpu.gfx[p] = 1

\* C8: FX0A stalls until a key is pressed: with every key at 0 the step leaves
\* pc and V[X] unchanged; with some key pressed V[X] becomes a pressed key and
\* pc advances by 2.
C8_WaitKeyStalls ==
    IsFX0A(opcode) =>
      IF \A k \in 0 .. NumKeys - 1 : prev.key[k] = 0
      THEN cpu.pc = prev.pc /\ cpu.V[OpX(opcode)] = prev.V[OpX(opcode)]
      ELSE /\ cpu.pc = prev.pc + 2
           /\ \E k \in 0 .. NumKeys - 1 :
                prev.key[k] # 0 /\ cpu.V[OpX(opcode)] = k

\* C9: after initialisation and a successful load, before the first step,
\* pc = 0x200, I = 0, sp = 0, draw_flag is true and both timers are 0,
\* whatever the storage held before.
C9_ResetState ==
    at = "loaded" =>
      /\ cpu.pc = 512
      /\ cpu.I = 0
      /\ cpu.sp = 0
      /\ cpu.draw_flag = TRUE
      /\ cpu.delay_timer = 0
      /\ cpu.sound_timer = 0

\* the standard CHIP-8 hex font, five bytes per digit 0-F
HexFont ==
    <<240, 144, 144, 144, 240,   32,  96,  32,  32, 112,
      240,  16, 240, 128, 240,  240,  16, 240,  16, 240,
      144, 144, 240,  16,  16,  240, 128, 240,  16, 240,
      240, 128, 240, 144, 240,  240,  16,  32,  64,  64,
      240, 144, 240, 144, 240,  240, 144, 240,  16, 240,
      240, 144, 240, 144, 144,  224, 144, 224, 144, 224,
      240, 128, 128, 128, 240,  224, 144, 144, 144, 224,
      240, 128, 240, 128, 240,  240, 128, 240, 128, 128>>

\* C10: after a successful load memory[0x000..0x04F] holds the hex font.
C10_FontInstalled ==
    at = "loaded" => \A a \in 0 .. 79 : cpu.memory[a] = HexFont[a + 1]


(***************************************************************************)
(* Properties of loading, drawing, arithmetic, decoding and the timers.    *)
(***************************************************************************)
\* C11: load_rom succeeds exactly for a file of at most 3584 bytes; then
\* memory[0x200 + i] is byte i of the file and every other byte of memory is
\* the 0 that init_cpu left; a longer file fails with memory untouched
C11_RomLoad ==
    /\ at = "loaded" =>
         /\ rom # NoFile
         /\ Len(rom) <= 3584
         /\ \A a \in 0 .. 4095 :
              cpu.memory[a] = IF a >= 512 /\ a - 512 < Len(rom)
                              THEN rom[a - 512 + 1] ELSE 0
    /\ at = "failed" =>
         /\ rom = NoFile \/ Len(rom) > 3584
         /\ \A a \in 0 .. 4095 : cpu.memory[a] = 0

\* a file of exactly 3584 bytes is loaded, its last instruction at 0xFFE
C11_Witness ==
    /\ at = "loaded"
    /\ Len(rom) = 3584
    /\ cpu.memory[4094] = 48

\* the latest two steps were consecutive and executed the same opcode
Twice == opcode # NoOpcode /\ opcode2 = opcode

\* C12 as stated: the same DXYN twice, for every X and Y in 0..15 and N in
\* 1..15, leaves gfx as it was before the first draw
C12_DrawTwiceAnyXY ==
    (Twice /\ IsDraw(opcode) /\ ~ub /\ OpN(opcode) \in 1 .. 15) =>
        cpu.gfx = prev2.gfx

\* C12: the same DXYN twice, for X and Y in 0..14 and N in 1..15, leaves gfx
\* as it was before the first draw
C12_DrawTwiceRestores ==
    (Twice /\ IsDraw(opcode) /\ ~ub /\ OpN(opcode) \in 1 .. 15
       /\ OpX(opcode) # 15 /\ OpY(opcode) # 15) =>
        cpu.gfx = prev2.gfx

\* a draw over a screen with lit pixels, changed by the first draw and put
\* back by the second
C12_Witness ==
    /\ Twice /\ IsDraw(opcode) /\ ~ub /\ OpN(opcode) \in 1 .. 15
    /\ OpX(opcode) # 15 /\ OpY(opcode) # 15
    /\ \E p \in 0 .. GfxSize - 1 : prev2.gfx[p] = 1
    /\ prev.gfx # prev2.gfx
    /\ cpu.gfx = prev2.gfx

\* bit col (0 the leftmost) of a sprite row
RowBit(byte, col) == (byte \div 2 ^ (7 - col)) % 2 = 1

\* the pixels DXYN targets: one for each set bit of the rows at I, I+1, ...
DrawTargets(V, I, memory, op) ==
    LET sx == V[OpX(op)] % 64
        sy == V[OpY(op)] % 32
    IN  {((sx + rc[2]) % 64) + 64 * ((sy + rc[1]) % 32) :
           rc \in {t \in (0 .. OpN(op) - 1) \X (0 .. 7) :
                     I + t[1] < 4096 /\ RowBit(memory[I + t[1]], t[2])}}

\* the first draw left V[X] and V[Y] as they were
SameOperands ==
    /\ prev.V[OpX(opcode)] = prev2.V[OpX(opcode)]
    /\ prev.V[OpY(opcode)] = prev2.V[OpY(opcode)]

\* C13 as stated: the second of two identical draws ends with V[0xF] = 1
\* exactly when some targeted pixel was 1 before the first draw
C13_SecondFlagWasOne ==
    (Twice /\ IsDraw(opcode) /\ ~ub /\ SameOperands) =>
        (cpu.V[15] = 1 <=>
           \E p \in DrawTargets(prev2.V, prev2.I, cpu.memory, opcode) :
              prev2.gfx[p] = 1)

\* C13: the second of two identical draws ends with V[0xF] = 1 exactly when
\* some targeted pixel was 0 before the first draw, which lit it; else with 0
C13_SecondFlagWasZero ==
    (Twice /\ IsDraw(opcode) /\ ~ub /\ SameOperands) =>
        /\ cpu.V[15] \in {0, 1}
        /\ cpu.V[15] = 1 <=>
             \E p \in DrawTargets(prev2.V, prev2.I, cpu.memory, opcode) :
                prev2.gfx[p] = 0

\* the second draw collides where the first lit a pixel, on a screen where
\* the first draw collided too
C13_Witness ==
    /\ Twice /\ IsDraw(opcode) /\ ~ub /\ SameOperands
    /\ cpu.V[15] = 1
    /\ prev.V[15] = 1
    /\ \E p \in DrawTargets(prev2.V, prev2.I, cpu.memory, opcode) :
          prev2.gfx[p] = 0

Is8XY3(op) == op # NoOpcode /\ OpClass(op) = 8 /\ OpN(op) = 3

\* C14 as stated: 8XY3 twice, X = Y included, leaves every register as it
\* was before the first
C14_XorTwiceAnyXY ==
    (Twice /\ Is8XY3(opcode)) => cpu.V = prev2.V

\* C14: 8XY3 twice with X # Y leaves V[X] and every other register as they
\* were before the first
C14_XorTwiceRestores ==
    (Twice /\ Is8XY3(opcode) /\ OpX(opcode) # OpY(opcode)) => cpu.V = prev2.V

\* the first 8XY3 changed V[X] and the second put it back
C14_Witness ==
    /\ Twice /\ Is8XY3(opcode) /\ OpX(opcode) # OpY(opcode)
    /\ prev.V[OpX(opcode)] # prev2.V[OpX(opcode)]
    /\ cpu.V = prev2.V

\* C15: DXYN, with V[X] mod 64 and V[Y] mod 32 read before the step, toggles
\* the pixel of every set sprite bit once and no other pixel, sets V[0xF] to
\* 1 if a toggled pixel was 1 before and else to 0, sets draw_flag and adds
\* 2 to pc
C15_DrawSemantics ==
    (IsDraw(opcode) /\ ~ub) =>
        LET T == DrawTargets(prev.V, prev.I, prev.memory, opcode)
        IN  /\ \A p \in 0 .. 2047 :
                 cpu.gfx[p] = IF p \in T THEN 1 - prev.gfx[p] ELSE prev.gfx[p]
            /\ cpu.V[15] = IF \E p \in T : prev.gfx[p] = 1 THEN 1 ELSE 0
            /\ cpu.draw_flag
            /\ cpu.pc = prev.pc + 2

\* a sprite drawn at (63, 31) has wrapped to column 0 and to row 0
C15_Witness ==
    /\ IsDraw(opcode) /\ ~ub
    /\ prev.V[OpX(opcode)] = 63 /\ prev.V[OpY(opcode)] = 31
    /\ cpu.gfx[2047] = 1 /\ cpu.gfx[1984] = 1 /\ cpu.gfx[63] = 1
    /\ cpu.gfx[0] = 1

Is8XY4(op) == op # NoOpcode /\ OpClass(op) = 8 /\ OpN(op) = 4
Is8XY5(op) == op # NoOpcode /\ OpClass(op) = 8 /\ OpN(op) = 5

\* C16: 8XY4 with s the sum of V[X] and V[Y] before the step ends with
\* V[0xF] = 1 if s > 255 and else 0, X = 0xF included; for X # 0xF it ends
\* with V[X] = s mod 256; no other register changes
C16_AddCarry ==
    Is8XY4(opcode) =>
        LET x == OpX(opcode)
            s == prev.V[x] + prev.V[OpY(opcode)]
        IN  /\ cpu.V[15] = IF s > 255 THEN 1 ELSE 0
            /\ x # 15 => cpu.V[x] = s % 256
            /\ \A r \in 0 .. 15 : r \notin {x, 15} => cpu.V[r] = prev.V[r]

\* C17: 8XY5 with vx and vy the values of V[X] and V[Y] before the step ends
\* with V[0xF] = 1 if vx >= vy and else 0, X = 0xF and Y = 0xF included; for
\* X # 0xF it ends with V[X] = (vx - vy) mod 256
C17_SubBorrow ==
    Is8XY5(opcode) =>
        LET x == OpX(opcode)
            vx == prev.V[x]
            vy == prev.V[OpY(opcode)]
        IN  /\ cpu.V[15] = IF vx >= vy THEN 1 ELSE 0
            /\ x # 15 => cpu.V[x] = (vx - vy + 256) % 256

\* C18: a step whose opcode is neither 00E0 nor DXYN leaves gfx and
\* draw_flag as they were; and once main has cleared draw_flag it is true
\* only if a step has executed 00E0 or DXYN since
C18_DrawFlagTracksGfx ==
    /\ (Stepped /\ ~ub /\ ~IsCls(opcode) /\ ~IsDraw(opcode)) =>
         /\ cpu.gfx = prev.gfx
         /\ cpu.draw_flag = prev.draw_flag
    /\ since = "clear" => ~cpu.draw_flag

\* the opcodes every arm of emulate_cycle's switches passes to a default
Unrecognised(op) ==
    /\ op # NoOpcode
    /\ \/ OpClass(op) = 0 /\ OpNN(op) \notin {224, 238}
       \/ OpClass(op) \in {5, 9, 11}
       \/ OpClass(op) = 8 /\ OpN(op) \notin 0 .. 5
       \/ OpClass(op) = 14 /\ OpNN(op) \notin {158, 161}
       \/ OpClass(op) = 15 /\ OpNN(op) \notin {7, 21, 24}

\* C19: a step on an opcode emulate_cycle does not recognise adds 2 to pc
\* and leaves V, I, sp, stack, memory, gfx, key and draw_flag as they were
C19_UnknownOpcode ==
    Unrecognised(opcode) =>
        /\ cpu.pc = prev.pc + 2
        /\ cpu.V = prev.V
        /\ cpu.I = prev.I
        /\ cpu.sp = prev.sp
        /\ cpu.stack = prev.stack
        /\ cpu.memory = prev.memory
        /\ cpu.gfx = prev.gfx
        /\ cpu.key = prev.key
        /\ cpu.draw_flag = prev.draw_flag

\* the step on 0123 has gone by
C19_Witness ==
    /\ Unrecognised(opcode)
    /\ opcode = 291
    /\ cpu.pc = prev.pc + 2

\* the value a timer has when the step reaches the decrement
TimerBefore(set, x, old) == IF set THEN prev.V[x] ELSE old

\* C20: the decrement at the end of a step turns a timer n > 0 into n - 1
\* and leaves 0 at 0, each timer by itself
C20_TimersSaturate ==
    Stepped =>
        LET d == TimerBefore(IsFX15(opcode), OpX(opcode), prev.delay_timer)
            s == TimerBefore(IsFX18(opcode), OpX(opcode), prev.sound_timer)
        IN  /\ cpu.delay_timer = IF d > 0 THEN d - 1 ELSE 0
            /\ cpu.sound_timer = IF s > 0 THEN s - 1 ELSE 0

\* one timer stays at 0 while the other counts down
C20_Witness ==
    /\ Stepped /\ ~IsFX15(opcode) /\ ~IsFX18(opcode)
    /\ prev.delay_timer = 0 /\ cpu.delay_timer = 0
    /\ prev.sound_timer > 0 /\ cpu.sound_timer = prev.sound_timer - 1

====
